---- MODULE Spec2Model ----
(***************************************************************************)
(* BCCE_ML_afternoon_session.ipynb: the hyperparameter sweep cell (the     *)
(* nested loop over trees and depths that fits one RandomForestRegressor   *)
(* per combination and records MSE and R2), the scaling and                *)
(* cross-validation cells that prepare and reuse the scaler, and the       *)
(* linear-regression and default random-forest cells that build the        *)
(* model-comparison table, and the cells that load the molecules and       *)
(* compute their descriptors.                                              *)
(*                                                                         *)
(* The sweep cell is modelled statement by statement.  Its inputs (the two *)
(* hyperparameter lists and the two partitions) are drawn from bounded     *)
(* sets, so that the cell is checked as a function of its inputs and not   *)
(* only on the literals of the notebook.  The library calls are modelled   *)
(* by their documented behaviour: parameter and input validation in fit    *)
(* and predict, and deterministic arithmetic for the scores.               *)
(***************************************************************************)
EXTENDS Integers, Sequences, FiniteSets, TLC

VARIABLES
    \* ---- names of the sweep cell ----
    trees,            \* list of n_estimators values
    depths,           \* list of max_depth values
    x_train_scaled,   \* training feature matrix
    y_train,          \* training target vector
    x_test_scaled,    \* test feature matrix
    y_test,           \* test target vector
    tree_count,       \* accumulator: n_estimators of each evaluated cell
    tree_depth,       \* accumulator: max_depth of each evaluated cell
    tuned_rf_MSE,     \* accumulator: MSE of each evaluated cell
    tuned_rf_R2,      \* accumulator: R2 of each evaluated cell
    tree,             \* loop variable of the outer loop
    depth,            \* loop variable of the inner loop
    ti,               \* position of the outer list iterator
    di,               \* position of the inner list iterator
    tuned_rf_model,   \* the RandomForestRegressor object bound to the name
    y_pred_tuned_rf,  \* predictions of the current cell
    results_df,       \* the result table
    rng,              \* state of numpy's global RandomState (random_state=None)
    pc,               \* the statement the kernel executes next
    raised,           \* the exception that ended the execution of the cell
    \* ---- history of the current execution of the sweep cell ----
    run,              \* number of executions of the sweep cell started
    nInst,            \* models instantiated in this execution
    nFit,             \* fit calls that returned in this execution
    nPred,            \* predict calls that returned in this execution
    dfRun,            \* the execution that assigned results_df (0: none)
    history,          \* per execution: seed at its start, its inputs, its fit calls
    \* ---- names of the scaling and cross-validation cells ----
    x,                \* feature column of the whole data set
    x_train,          \* training rows of x
    x_test,           \* test rows of x
    scaler,           \* the StandardScaler object
    cv,               \* progress of cross_val_score
    \* ---- names of the linear-regression and default random-forest cells ----
    multi_feature_model,       \* the LinearRegression object
    y_pred_linear_multi,       \* its predictions on the test partition
    default_rf_model,          \* the RandomForestRegressor() object
    y_pred_default_rf,         \* its predictions on the test partition
    default_rf_model_results,  \* one-row table of the default forest
    results,                   \* the model-comparison table
    rfRuns,           \* completed default-forest cells since results was last rebuilt
    \* ---- names of the data loading and descriptor cells ----
    csv,              \* the smiles fields of the data file, one per line
    df,               \* the DataFrame of molecules
    aborted           \* the cells whose execution ended with an exception

sweepVars == <<trees, depths, x_train_scaled, y_train, x_test_scaled, y_test,
               tree_count, tree_depth, tuned_rf_MSE, tuned_rf_R2, tree, depth,
               ti, di, tuned_rf_model, y_pred_tuned_rf, results_df, rng, pc,
               raised, run, nInst, nFit, nPred, dfRun, history>>

cmpVars == <<multi_feature_model, y_pred_linear_multi, default_rf_model,
             y_pred_default_rf, default_rf_model_results, results, rfRuns>>

featVars == <<csv, df, aborted>>

prepVars == <<x, x_train, x_test, scaler, cv, cmpVars, featVars>>

vars == <<sweepVars, prepVars>>

----------------------------------------------------------------------------
(* Bounds of the model *)

\* longest hyperparameter list drawn
MaxLen == 2
\* executions of the sweep cell in one session
MaxRuns == 2
\* number of states of the random generator
RngMod == 2
\* number of distinct values a prediction can take
PredLevels == 3

\* rows of the data set handed to the split
NRows == 5
\* executions of the scaling cell in one session
MaxScalerRuns == 2
\* executions of the default random-forest cell on one comparison table
MaxRfRuns == 3
\* lines of the data file
MaxMols == 2

\* candidate n_estimators values: two valid ones and a non-positive one
TreeVals == {0, 50, 100}
\* candidate max_depth values: two valid ones and a non-positive one
DepthVals == {0, 1, 3}

\* all sequences over S of length at most n
SeqUpTo(S, n) == UNION {[1..k -> S] : k \in 0..n}

----------------------------------------------------------------------------
(* Data: a feature matrix is its column count and its rows *)

Matrix(nrows, ncols) ==
    [n_features |-> ncols, rows |-> [r \in 1..nrows |-> [c \in 1..ncols |-> r]]]

\* (X, y) pairs handed to the sweep as the training partition
TrainSets == { [X |-> Matrix(2, 3), y |-> <<0, 2>>],
               [X |-> Matrix(0, 3), y |-> <<>>] }

\* (X, y) pairs handed to the sweep as the test partition
TestSets == { [X |-> Matrix(2, 3), y |-> <<0, 2>>],
              [X |-> Matrix(2, 4), y |-> <<0, 2>>],
              [X |-> Matrix(0, 3), y |-> <<>>] }

RECURSIVE SumSeq(_)
SumSeq(s) == IF s = <<>> THEN 0 ELSE Head(s) + SumSeq(Tail(s))

----------------------------------------------------------------------------
(* The library calls of the sweep cell *)

\* RandomForestRegressor(n_estimators = tree, max_depth = depth): the
\* constructor stores its arguments and validates nothing
RandomForestRegressor(ident, n, d) ==
    [id |-> ident, n_estimators |-> n, max_depth |-> d, fitted |-> FALSE,
     n_features_in_ |-> 0, seed |-> 0, trained_on |-> <<>>]

\* the name tuned_rf_model before the first execution of the cell
NoModel == RandomForestRegressor(0, 0, 0)

\* FitErrors without the validation of the parameters
FitErrors_NoParamCheck(m, X) ==
    IF Len(X.rows) = 0 THEN {"EmptyDataset"} ELSE {}

\* FitErrors without the check for an empty training matrix
FitErrors_NoEmptyCheck(m, X) ==
    IF m.n_estimators <= 0 \/ m.max_depth <= 0
        THEN {"InvalidHyperparameter"} ELSE {}

\* errors fit raises before it builds a tree: invalid parameters and an
\* empty training matrix
FitErrors(m, X) ==
    (IF m.n_estimators <= 0 \/ m.max_depth <= 0
        THEN {"InvalidHyperparameter"} ELSE {})
    \cup (IF Len(X.rows) = 0 THEN {"EmptyDataset"} ELSE {})

\* the model after fit(X, y): built from the model's own parameters, the
\* training data and the seed drawn from the global generator
FittedModel(m, X, y, s) ==
    [m EXCEPT !.fitted = TRUE, !.n_features_in_ = X.n_features, !.seed = s,
              !.trained_on = <<X, y>>]

\* PredictErrors without the comparison of the column counts
PredictErrors_NoSchemaCheck(m, X) ==
    IF Len(X.rows) = 0 THEN {"EmptyDataset"} ELSE {}

\* errors predict raises: an empty matrix first, then a column count that
\* differs from the one seen in fit
PredictErrors(m, X) ==
    IF Len(X.rows) = 0 THEN {"EmptyDataset"}
    ELSE IF X.n_features # m.n_features_in_ THEN {"SchemaMismatch"}
    ELSE {}

\* predict(X): one value per row, a deterministic function of the fitted
\* model and of the row
PredictRows(m, X) ==
    [r \in 1..Len(X.rows) |->
        (m.seed + (m.n_estimators \div 50) + m.max_depth + X.rows[r][1])
            % PredLevels]

\* sum of squared residuals
SSres(y_true, y_pred) ==
    SumSeq([k \in 1..Len(y_true) |-> (y_true[k] - y_pred[k]) * (y_true[k] - y_pred[k])])

\* total sum of squares about the mean, times the number of samples
SStotN(y_true) ==
    Len(y_true) * SumSeq([k \in 1..Len(y_true) |-> y_true[k] * y_true[k]])
        - SumSeq(y_true) * SumSeq(y_true)

\* mean_squared_error(y_true, y_pred) as the exact fraction num/den
mean_squared_error(y_true, y_pred) ==
    [num |-> SSres(y_true, y_pred), den |-> Len(y_true)]

\* r2_score(y_true, y_pred) = 1 - SSres/SStot as the exact fraction num/den
r2_score(y_true, y_pred) ==
    [num |-> SStotN(y_true) - Len(y_true) * SSres(y_true, y_pred),
     den |-> SStotN(y_true)]

\* pd.DataFrame({...}) of the four lists: one row per position
DataFrame(tc, td, mse, r2) ==
    [k \in 1..Len(tc) |->
        [Number_of_trees |-> tc[k], Max_depth |-> td[k], MSE |-> mse[k], R2 |-> r2[k]]]

\* results_df before the cell has ever completed
NoTable == <<>>

----------------------------------------------------------------------------
(* The library calls of the linear-regression and default random-forest cells *)

\* LinearRegression(): an unfitted estimator without hyperparameters
LinearRegression ==
    [fitted |-> FALSE, n_features_in_ |-> 0, trained_on |-> <<>>]

\* errors LinearRegression.fit raises: an empty training matrix
LinearFitErrors(X) == IF Len(X.rows) = 0 THEN {"EmptyDataset"} ELSE {}

\* the estimator after fit(X, y)
LinearFitted(m, X, y) ==
    [m EXCEPT !.fitted = TRUE, !.n_features_in_ = X.n_features,
              !.trained_on = <<X, y>>]

\* predict(X) of the fitted line.  The columns of a training matrix are
\* equal, so the least-squares fit is the line through the points
\* (row[1], y) of the first and the last training row
LinearPredictRows(m, X) ==
    LET Xt == m.trained_on[1].rows
        yt == m.trained_on[2]
        n  == Len(Xt)
    IN  [r \in 1..Len(X.rows) |->
            IF Xt[n][1] = Xt[1][1] THEN yt[1]
            ELSE yt[1] + ((yt[n] - yt[1]) * (X.rows[r][1] - Xt[1][1]))
                            \div (Xt[n][1] - Xt[1][1])]

\* RandomForestRegressor(): n_estimators = 100 and max_depth = None, a tree
\* grown until its leaves are pure; on the training matrices of the model
\* that is a tree of the largest depth of DepthVals
DefaultRandomForestRegressor == RandomForestRegressor(1, 100, 3)

\* pd.DataFrame({"MSE": ..., "R2": ...}, index=[label]): a table of one row
ScoreTable(label, y_true, y_pred) ==
    <<[index |-> label,
       MSE |-> mean_squared_error(y_true, y_pred),
       R2 |-> r2_score(y_true, y_pred)]>>

\* pd.concat([a, b]): the rows of a, then the rows of b, labels kept as they are
concat(a, b) == a \o b

\* the name results before the linear-regression cell has completed
NoResults == <<>>

\* the two cells have not been executed: their names are unbound
CmpUnused ==
    /\ multi_feature_model = LinearRegression
    /\ y_pred_linear_multi = <<>>
    /\ default_rf_model = NoModel
    /\ y_pred_default_rf = <<>>
    /\ default_rf_model_results = <<>>
    /\ results = NoResults
    /\ rfRuns = 0

----------------------------------------------------------------------------
(* The library calls of the data loading and descriptor cells *)

\* smiles fields of a line of the data file: ethanol, benzene, a string
\* that is no SMILES, and an empty field
SmilesFields == {"CCO", "c1ccccc1", "C(", ""}

\* the float NaN that read_csv stores for an empty field
NaN == "NaN"

\* the columns of the data file
FileColumns == <<"Compound ID", "smiles", "logS">>

\* pd.read_csv(data_path): one row per line, an empty field read as NaN
read_csv(fields) ==
    [cols |-> FileColumns,
     rows |-> [k \in 1..Len(fields) |->
                [c \in {"Compound ID", "smiles", "logS"} |->
                    IF c = "smiles"
                        THEN (IF fields[k] = "" THEN NaN ELSE fields[k])
                        ELSE k]]]

\* the name df before the file is read
NoFrame == [cols |-> <<>>, rows |-> <<>>]

\* the value Chem.MolFromSmiles returns for a string it cannot parse
None == [is_none |-> TRUE]

\* an RDKit molecule: heavy atoms, aromatic atoms, weight, rotatable bonds,
\* Crippen logP in hundredths
Mol(atoms, aromatic, weight, rot, logp) ==
    [is_none |-> FALSE, NumAtoms |-> atoms, AromaticAtoms |-> aromatic,
     MolWt |-> weight, NumRotatableBonds |-> rot, MolLogP |-> logp]

\* Chem.MolFromSmiles(s) raises when s is not a string
MolFromSmilesRaises(s) == s = NaN

\* Chem.MolFromSmiles(s) for a string: the molecule, or None when s does
\* not parse
MolFromSmiles(s) ==
    CASE s = "CCO" -> Mol(3, 0, 46, 0, 0)
      [] s = "c1ccccc1" -> Mol(6, 6, 78, 0, 169)
      [] OTHER -> None

\* the descriptor functions; each raises on None
MolWt(mol) == mol.MolWt
CalcNumRotatableBonds(mol) == mol.NumRotatableBonds
MolLogP(mol) == mol.MolLogP

\* aromatic_calc(mol): len(mol.GetAromaticAtoms()) / mol.GetNumAtoms() as
\* the exact fraction num/den
aromatic_calc(mol) == [num |-> mol.AromaticAtoms, den |-> mol.NumAtoms]

\* name is a column of table d
HasColumn(d, name) == \E i \in 1..Len(d.cols) : d.cols[i] = name

\* d[name] = vals: the column is added after the others, or replaced
WithColumn(d, name, vals) ==
    [cols |-> IF HasColumn(d, name) THEN d.cols ELSE Append(d.cols, name),
     rows |-> [k \in 1..Len(d.rows) |->
                [c \in (DOMAIN d.rows[k]) \cup {name} |->
                    IF c = name THEN vals[k] ELSE d.rows[k][c]]]]

\* d.drop(columns = names), all names being columns of d
drop(d, names) ==
    [cols |-> SelectSeq(d.cols, LAMBDA c : c \notin names),
     rows |-> [k \in 1..Len(d.rows) |->
                [c \in (DOMAIN d.rows[k]) \ names |-> d.rows[k][c]]]]

\* the columns line 555 drops from df
DroppedColumns == {"logS", "smiles", "mol", "Compound ID"}

\* the data loading and descriptor cells have not been executed
FeatUnused ==
    /\ csv = <<>>
    /\ df = NoFrame
    /\ aborted = {}

----------------------------------------------------------------------------
(* The library calls of the split, scaling and cross-validation cells *)

\* candidate values of the feature column
FeatVals == {0, 1, 2}

\* test_size = 0.2, in percent
TestPercent == 20
\* KFold(n_splits = 5, ...)
n_splits == 5

\* the order in which a seeded shuffle (random_state = 123) visits n rows:
\* a fixed permutation of 1..n
Shuffled(n, k) == n + 1 - k

\* number of test rows: ceil(test_size * n)
NTest(n) == (n * TestPercent + 99) \div 100

\* train_test_split(x, ...): the first NTest shuffled rows are the test rows,
\* the following ones the training rows
SplitTest(X) == [k \in 1..NTest(Len(X)) |-> X[Shuffled(Len(X), k)]]
SplitTrain(X) ==
    [k \in 1..(Len(X) - NTest(Len(X))) |-> X[Shuffled(Len(X), NTest(Len(X)) + k)]]

\* StandardScaler(): a new, unfitted object
StandardScaler(ident) ==
    [id |-> ident, fitted |-> FALSE, n_fit |-> 0,
     n_samples_seen_ |-> 0, sum_ |-> 0, sumsq_ |-> 0]

\* the name scaler before the scaling cell has run
NoScaler == StandardScaler(0)

\* fit(X): the statistics of X replace whatever the object held;
\* mean_ = sum_ / n_samples_seen_, var_ = sumsq_ / n_samples_seen_ - mean_^2
ScalerFit(sc, X) ==
    [sc EXCEPT !.fitted = TRUE, !.n_fit = @ + 1,
               !.n_samples_seen_ = Len(X),
               !.sum_ = SumSeq(X),
               !.sumsq_ = SumSeq([k \in 1..Len(X) |-> X[k] * X[k]])]

\* transform(X): (v - mean_) / scale_ as the exact value num / sqrt(den2);
\* a zero variance is replaced by a scale of one
ScalerTransform(sc, X) ==
    LET n == sc.n_samples_seen_
        v == n * sc.sumsq_ - sc.sum_ * sc.sum_
    IN  [k \in 1..Len(X) |->
            [num |-> n * X[k] - sc.sum_, den2 |-> IF v = 0 THEN n * n ELSE v]]

\* clone(estimator): a new unfitted object with the same parameters; it is
\* no object a name of the notebook is bound to
Clone(sc) == StandardScaler(0)

\* KFold: size and first position of fold f among the shuffled rows
FoldSize(n, f) == (n \div n_splits) + (IF f <= n % n_splits THEN 1 ELSE 0)
FoldStart(n, f) == SumSeq([g \in 1..(f - 1) |-> FoldSize(n, g)])

\* row positions of x held out in fold f
FoldTestIdx(n, f) ==
    {Shuffled(n, FoldStart(n, f) + k) : k \in 1..FoldSize(n, f)}

\* the rows of X kept for training in fold f, in row order
FoldTrain(X, f) ==
    LET F[k \in 0..Len(X)] ==
            IF k = 0 THEN <<>>
            ELSE IF k \in FoldTestIdx(Len(X), f) THEN F[k - 1]
            ELSE Append(F[k - 1], X[k])
    IN  F[Len(X)]

\* cross_val_score has not run
NoCv == [pipeline |-> 0, fold |-> 0, est |-> NoScaler]

----------------------------------------------------------------------------
(* The sweep cell, statement by statement *)

\* what no statement of the sweep cell assigns
SweepInputs == <<trees, depths, x_train_scaled, y_train, x_test_scaled, y_test>>

\* the state of the session before the sweep cell is first executed
SweepIdle ==
    /\ tree_count = <<>> /\ tree_depth = <<>>
    /\ tuned_rf_MSE = <<>> /\ tuned_rf_R2 = <<>>
    /\ tree = 0 /\ depth = 0 /\ ti = 0 /\ di = 0
    /\ tuned_rf_model = NoModel
    /\ y_pred_tuned_rf = <<>>
    /\ results_df = NoTable
    /\ pc = "idle" /\ raised = "none"
    /\ run = 0 /\ nInst = 0 /\ nFit = 0 /\ nPred = 0 /\ dfRun = 0
    /\ history = <<>>

\* the scaling cells are not part of the sweep: their names stay unbound
PrepUnused ==
    /\ x = <<>> /\ x_train = <<>> /\ x_test = <<>>
    /\ scaler = NoScaler /\ cv = NoCv
    /\ CmpUnused
    /\ FeatUnused

Init ==
    /\ trees \in SeqUpTo(TreeVals, MaxLen)
    /\ depths \in SeqUpTo(DepthVals, MaxLen)
    /\ \E tr \in TrainSets : x_train_scaled = tr.X /\ y_train = tr.y
    /\ \E te \in TestSets : x_test_scaled = te.X /\ y_test = te.y
    /\ rng \in 0..(RngMod - 1)
    /\ SweepIdle
    /\ PrepUnused

\* the record of an execution that starts with generator state s
NewExecution(s, ts, ds, xt) ==
    [seed |-> s, trees |-> ts, depths |-> ds, test |-> xt, fits |-> <<>>]

\* the call fit(X, y) on model m, added to the current execution
LogFit(h, m, X, y) ==
    [h EXCEPT ![Len(h)].fits =
        Append(@, [n_estimators |-> m.n_estimators, max_depth |-> m.max_depth,
                   X |-> X, y |-> y])]

\* trees = [...]; depths = [...]; the four accumulators rebound to []
RunSweepCell ==
    /\ pc \in {"idle", "done", "raised"}
    /\ run < MaxRuns
    /\ run' = run + 1
    /\ tree_count' = <<>> /\ tree_depth' = <<>>
    /\ tuned_rf_MSE' = <<>> /\ tuned_rf_R2' = <<>>
    /\ ti' = 0 /\ di' = 0
    /\ nInst' = 0 /\ nFit' = 0 /\ nPred' = 0
    /\ raised' = "none"
    /\ pc' = "for_tree"
    /\ history' = Append(history, NewExecution(rng, trees, depths, x_test_scaled))
    /\ UNCHANGED <<SweepInputs, tree, depth, tuned_rf_model, y_pred_tuned_rf,
                   results_df, rng, dfRun, prepVars>>

\* ForTree over an inner iterator that is not restarted for each tree
ForTree_NoReset ==
    /\ pc = "for_tree"
    /\ \/ /\ ti < Len(trees)
          /\ ti' = ti + 1
          /\ tree' = trees[ti + 1]
          /\ pc' = "for_depth"
          /\ UNCHANGED di
       \/ /\ ti >= Len(trees)
          /\ pc' = "build_df"
          /\ UNCHANGED <<ti, tree, di>>
    /\ UNCHANGED <<SweepInputs, tree_count, tree_depth, tuned_rf_MSE, tuned_rf_R2,
                   depth, tuned_rf_model, y_pred_tuned_rf, results_df, rng,
                   raised, run, nInst, nFit, nPred, dfRun, history,
                   prepVars>>

\* ForTree that takes the next tree by trees.pop(0)
ForTree_Pop ==
    /\ pc = "for_tree"
    /\ \/ /\ trees # <<>>
          /\ ti' = ti + 1
          /\ tree' = Head(trees)
          /\ trees' = Tail(trees)
          /\ di' = 0
          /\ pc' = "for_depth"
       \/ /\ trees = <<>>
          /\ pc' = "build_df"
          /\ UNCHANGED <<trees, ti, tree, di>>
    /\ UNCHANGED <<depths, x_train_scaled, y_train, x_test_scaled, y_test,
                   tree_count, tree_depth, tuned_rf_MSE, tuned_rf_R2,
                   depth, tuned_rf_model, y_pred_tuned_rf, results_df, rng,
                   raised, run, nInst, nFit, nPred, dfRun, history,
                   prepVars>>

\* ForTree that rejects an empty grid when the loop starts
ForTree_RaiseOnEmpty ==
    /\ pc = "for_tree"
    /\ \/ /\ ti = 0 /\ (trees = <<>> \/ depths = <<>>)
          /\ raised' = "InvalidHyperparameter"
          /\ pc' = "raised"
          /\ UNCHANGED <<ti, tree, di>>
       \/ /\ ~(ti = 0 /\ (trees = <<>> \/ depths = <<>>))
          /\ ti < Len(trees)
          /\ ti' = ti + 1
          /\ tree' = trees[ti + 1]
          /\ di' = 0
          /\ pc' = "for_depth"
          /\ UNCHANGED raised
       \/ /\ ~(ti = 0 /\ (trees = <<>> \/ depths = <<>>))
          /\ ti >= Len(trees)
          /\ pc' = "build_df"
          /\ UNCHANGED <<ti, tree, di, raised>>
    /\ UNCHANGED <<SweepInputs, tree_count, tree_depth, tuned_rf_MSE, tuned_rf_R2,
                   depth, tuned_rf_model, y_pred_tuned_rf, results_df, rng,
                   run, nInst, nFit, nPred, dfRun, history, prepVars>>

\* for tree in trees: bind the next element, or leave the loop
ForTree ==
    /\ pc = "for_tree"
    /\ \/ /\ ti < Len(trees)
          /\ ti' = ti + 1
          /\ tree' = trees[ti + 1]
          /\ di' = 0
          /\ pc' = "for_depth"
       \/ /\ ti >= Len(trees)
          /\ pc' = "build_df"
          /\ UNCHANGED <<ti, tree, di>>
    /\ UNCHANGED <<SweepInputs, tree_count, tree_depth, tuned_rf_MSE, tuned_rf_R2,
                   depth, tuned_rf_model, y_pred_tuned_rf, results_df, rng,
                   raised, run, nInst, nFit, nPred, dfRun, history,
                   prepVars>>

\* ForDepth that skips a (tree, depth) pair already recorded
ForDepth_SkipSeen ==
    /\ pc = "for_depth"
    /\ \/ /\ di < Len(depths)
          /\ di' = di + 1
          /\ depth' = depths[di + 1]
          /\ pc' = IF \E k \in 1..Len(tree_depth) :
                         tree_count[k] = tree /\ tree_depth[k] = depths[di + 1]
                      THEN "for_depth" ELSE "instantiate"
       \/ /\ di >= Len(depths)
          /\ pc' = "for_tree"
          /\ UNCHANGED <<di, depth>>
    /\ UNCHANGED <<SweepInputs, tree_count, tree_depth, tuned_rf_MSE, tuned_rf_R2,
                   tree, ti, tuned_rf_model, y_pred_tuned_rf, results_df, rng,
                   raised, run, nInst, nFit, nPred, dfRun, history,
                   prepVars>>

\* for depth in depths: bind the next element, or go back to the outer loop
ForDepth ==
    /\ pc = "for_depth"
    /\ \/ /\ di < Len(depths)
          /\ di' = di + 1
          /\ depth' = depths[di + 1]
          /\ pc' = "instantiate"
       \/ /\ di >= Len(depths)
          /\ pc' = "for_tree"
          /\ UNCHANGED <<di, depth>>
    /\ UNCHANGED <<SweepInputs, tree_count, tree_depth, tuned_rf_MSE, tuned_rf_R2,
                   tree, ti, tuned_rf_model, y_pred_tuned_rf, results_df, rng,
                   raised, run, nInst, nFit, nPred, dfRun, history,
                   prepVars>>

\* Instantiate that keeps one object and only sets its parameters
Instantiate_Reuse ==
    /\ pc = "instantiate"
    /\ tuned_rf_model' =
          IF nInst = 0
             THEN RandomForestRegressor(tuned_rf_model.id + 1, tree, depth)
             ELSE [tuned_rf_model EXCEPT !.n_estimators = tree, !.max_depth = depth]
    /\ nInst' = nInst + 1
    /\ pc' = "fit"
    /\ UNCHANGED <<SweepInputs, tree_count, tree_depth, tuned_rf_MSE, tuned_rf_R2,
                   tree, depth, ti, di, y_pred_tuned_rf, results_df, rng,
                   raised, run, nFit, nPred, dfRun, history,
                   prepVars>>

\* Instantiate that keeps a fitted model whose parameters are those of the
\* new cell, and goes straight to predict
Instantiate_Cached ==
    /\ pc = "instantiate"
    /\ nInst' = nInst + 1
    /\ IF /\ tuned_rf_model.fitted
          /\ tuned_rf_model.n_estimators = tree
          /\ tuned_rf_model.max_depth = depth
       THEN /\ pc' = "predict"
            /\ UNCHANGED tuned_rf_model
       ELSE /\ pc' = "fit"
            /\ tuned_rf_model' = RandomForestRegressor(tuned_rf_model.id + 1, tree, depth)
    /\ UNCHANGED <<SweepInputs, tree_count, tree_depth, tuned_rf_MSE, tuned_rf_R2,
                   tree, depth, ti, di, y_pred_tuned_rf, results_df, rng,
                   raised, run, nFit, nPred, dfRun, history, prepVars>>

\* tuned_rf_model = RandomForestRegressor(n_estimators = tree, max_depth = depth)
Instantiate ==
    /\ pc = "instantiate"
    /\ tuned_rf_model' = RandomForestRegressor(tuned_rf_model.id + 1, tree, depth)
    /\ nInst' = nInst + 1
    /\ pc' = "fit"
    /\ UNCHANGED <<SweepInputs, tree_count, tree_depth, tuned_rf_MSE, tuned_rf_R2,
                   tree, depth, ti, di, y_pred_tuned_rf, results_df, rng,
                   raised, run, nFit, nPred, dfRun, history,
                   prepVars>>

\* Fit inside a try/except that goes on with the next cell
Fit_Swallow ==
    /\ pc = "fit"
    /\ \/ /\ FitErrors(tuned_rf_model, x_train_scaled) = {}
          /\ tuned_rf_model' = FittedModel(tuned_rf_model, x_train_scaled, y_train, rng)
          /\ rng' = (rng + 1) % RngMod
          /\ nFit' = nFit + 1
          /\ history' = LogFit(history, tuned_rf_model, x_train_scaled, y_train)
          /\ pc' = "predict"
       \/ /\ FitErrors(tuned_rf_model, x_train_scaled) # {}
          /\ pc' = "for_depth"
          /\ UNCHANGED <<tuned_rf_model, rng, nFit, history>>
    /\ UNCHANGED <<SweepInputs, tree_count, tree_depth, tuned_rf_MSE, tuned_rf_R2,
                   tree, depth, ti, di, y_pred_tuned_rf, results_df, raised,
                   run, nInst, nPred, dfRun, prepVars>>

\* Fit whose forest draws its seed from fresh entropy, not from the generator
Fit_FreshEntropy ==
    /\ pc = "fit"
    /\ \/ /\ FitErrors(tuned_rf_model, x_train_scaled) = {}
          /\ \E s \in 0..(RngMod - 1) :
                tuned_rf_model' = FittedModel(tuned_rf_model, x_train_scaled, y_train, s)
          /\ rng' = (rng + 1) % RngMod
          /\ nFit' = nFit + 1
          /\ history' = LogFit(history, tuned_rf_model, x_train_scaled, y_train)
          /\ pc' = "predict"
          /\ UNCHANGED raised
       \/ /\ \E e \in FitErrors(tuned_rf_model, x_train_scaled) : raised' = e
          /\ pc' = "raised"
          /\ UNCHANGED <<tuned_rf_model, rng, nFit, history>>
    /\ UNCHANGED <<SweepInputs, tree_count, tree_depth, tuned_rf_MSE, tuned_rf_R2,
                   tree, depth, ti, di, y_pred_tuned_rf, results_df,
                   run, nInst, nPred, dfRun, prepVars>>

\* Fit on the rows of the train and of the test partition together
Fit_Leak ==
    /\ pc = "fit"
    /\ \/ /\ FitErrors(tuned_rf_model, x_train_scaled) = {}
          /\ tuned_rf_model' =
                FittedModel(tuned_rf_model,
                            [x_train_scaled EXCEPT !.rows = @ \o x_test_scaled.rows],
                            y_train \o y_test, rng)
          /\ rng' = (rng + 1) % RngMod
          /\ nFit' = nFit + 1
          /\ history' =
                LogFit(history, tuned_rf_model,
                       [x_train_scaled EXCEPT !.rows = @ \o x_test_scaled.rows],
                       y_train \o y_test)
          /\ pc' = "predict"
          /\ UNCHANGED raised
       \/ /\ \E e \in FitErrors(tuned_rf_model, x_train_scaled) : raised' = e
          /\ pc' = "raised"
          /\ UNCHANGED <<tuned_rf_model, rng, nFit, history>>
    /\ UNCHANGED <<SweepInputs, tree_count, tree_depth, tuned_rf_MSE, tuned_rf_R2,
                   tree, depth, ti, di, y_pred_tuned_rf, results_df,
                   run, nInst, nPred, dfRun, prepVars>>

\* tuned_rf_model.fit(x_train_scaled, y_train)
Fit ==
    /\ pc = "fit"
    /\ \/ /\ FitErrors(tuned_rf_model, x_train_scaled) = {}
          /\ tuned_rf_model' = FittedModel(tuned_rf_model, x_train_scaled, y_train, rng)
          /\ rng' = (rng + 1) % RngMod
          /\ nFit' = nFit + 1
          /\ history' = LogFit(history, tuned_rf_model, x_train_scaled, y_train)
          /\ pc' = "predict"
          /\ UNCHANGED raised
       \/ /\ \E e \in FitErrors(tuned_rf_model, x_train_scaled) : raised' = e
          /\ pc' = "raised"
          /\ UNCHANGED <<tuned_rf_model, rng, nFit, history>>
    /\ UNCHANGED <<SweepInputs, tree_count, tree_depth, tuned_rf_MSE, tuned_rf_R2,
                   tree, depth, ti, di, y_pred_tuned_rf, results_df,
                   run, nInst, nPred, dfRun, prepVars>>

\* y_pred_tuned_rf = tuned_rf_model.predict(x_test_scaled)
Predict ==
    /\ pc = "predict"
    /\ \/ /\ PredictErrors(tuned_rf_model, x_test_scaled) = {}
          /\ y_pred_tuned_rf' = PredictRows(tuned_rf_model, x_test_scaled)
          /\ nPred' = nPred + 1
          /\ pc' = "append_tree_count"
          /\ UNCHANGED raised
       \/ /\ \E e \in PredictErrors(tuned_rf_model, x_test_scaled) : raised' = e
          /\ pc' = "raised"
          /\ UNCHANGED <<y_pred_tuned_rf, nPred>>
    /\ UNCHANGED <<SweepInputs, tree_count, tree_depth, tuned_rf_MSE, tuned_rf_R2,
                   tree, depth, ti, di, tuned_rf_model, results_df, rng,
                   run, nInst, nFit, dfRun, history,
                   prepVars>>

\* tree_count.append(tree)
AppendTreeCount ==
    /\ pc = "append_tree_count"
    /\ tree_count' = Append(tree_count, tree)
    /\ pc' = "append_tree_depth"
    /\ UNCHANGED <<SweepInputs, tree_depth, tuned_rf_MSE, tuned_rf_R2,
                   tree, depth, ti, di, tuned_rf_model, y_pred_tuned_rf,
                   results_df, rng, raised, run, nInst, nFit, nPred, dfRun,
                   history,
                   prepVars>>

\* tree_depth.append(depth)
AppendTreeDepth ==
    /\ pc = "append_tree_depth"
    /\ tree_depth' = Append(tree_depth, depth)
    /\ pc' = "append_mse"
    /\ UNCHANGED <<SweepInputs, tree_count, tuned_rf_MSE, tuned_rf_R2,
                   tree, depth, ti, di, tuned_rf_model, y_pred_tuned_rf,
                   results_df, rng, raised, run, nInst, nFit, nPred, dfRun,
                   history,
                   prepVars>>

\* AppendMSE that also rewrites the entries already stored
AppendMSE_Rewrite ==
    /\ pc = "append_mse"
    /\ tuned_rf_MSE' = [k \in 1..(Len(tuned_rf_MSE) + 1) |->
                           mean_squared_error(y_test, y_pred_tuned_rf)]
    /\ pc' = "append_r2"
    /\ UNCHANGED <<SweepInputs, tree_count, tree_depth, tuned_rf_R2,
                   tree, depth, ti, di, tuned_rf_model, y_pred_tuned_rf,
                   results_df, rng, raised, run, nInst, nFit, nPred, dfRun,
                   history,
                   prepVars>>

\* tuned_rf_MSE.append(mean_squared_error(y_test, y_pred_tuned_rf))
AppendMSE ==
    /\ pc = "append_mse"
    /\ tuned_rf_MSE' = Append(tuned_rf_MSE, mean_squared_error(y_test, y_pred_tuned_rf))
    /\ pc' = "append_r2"
    /\ UNCHANGED <<SweepInputs, tree_count, tree_depth, tuned_rf_R2,
                   tree, depth, ti, di, tuned_rf_model, y_pred_tuned_rf,
                   results_df, rng, raised, run, nInst, nFit, nPred, dfRun,
                   history,
                   prepVars>>

\* AppendR2 that leaves out a negative score
AppendR2_SkipNegative ==
    /\ pc = "append_r2"
    /\ tuned_rf_R2' = IF r2_score(y_test, y_pred_tuned_rf).num < 0
                         THEN tuned_rf_R2
                         ELSE Append(tuned_rf_R2, r2_score(y_test, y_pred_tuned_rf))
    /\ pc' = "for_depth"
    /\ UNCHANGED <<SweepInputs, tree_count, tree_depth, tuned_rf_MSE,
                   tree, depth, ti, di, tuned_rf_model, y_pred_tuned_rf,
                   results_df, rng, raised, run, nInst, nFit, nPred, dfRun,
                   history, prepVars>>

\* tuned_rf_R2.append(r2_score(y_test, y_pred_tuned_rf)); back to the inner loop
AppendR2 ==
    /\ pc = "append_r2"
    /\ tuned_rf_R2' = Append(tuned_rf_R2, r2_score(y_test, y_pred_tuned_rf))
    /\ pc' = "for_depth"
    /\ UNCHANGED <<SweepInputs, tree_count, tree_depth, tuned_rf_MSE,
                   tree, depth, ti, di, tuned_rf_model, y_pred_tuned_rf,
                   results_df, rng, raised, run, nInst, nFit, nPred, dfRun,
                   history,
                   prepVars>>

\* results_df = pd.DataFrame({...}); the cell ends
BuildResultsDf ==
    /\ pc = "build_df"
    /\ results_df' = DataFrame(tree_count, tree_depth, tuned_rf_MSE, tuned_rf_R2)
    /\ dfRun' = run
    /\ pc' = "done"
    /\ UNCHANGED <<SweepInputs, tree_count, tree_depth, tuned_rf_MSE, tuned_rf_R2,
                   tree, depth, ti, di, tuned_rf_model, y_pred_tuned_rf, rng,
                   raised, run, nInst, nFit, nPred, history,
                   prepVars>>

Next ==
    \/ RunSweepCell
    \/ ForTree
    \/ ForDepth
    \/ Instantiate
    \/ Fit
    \/ Predict
    \/ AppendTreeCount
    \/ AppendTreeDepth
    \/ AppendMSE
    \/ AppendR2
    \/ BuildResultsDf

Spec == Init /\ [][Next]_vars

----------------------------------------------------------------------------
(* The sweep cell executed again, with its lists edited or with the test
   partition rebuilt by the cells above it *)

\* the lists typed into the cell
RerunTrees == {<<>>, <<50>>, <<50, 0>>, <<100, 50>>}
RerunDepths == {<<3>>, <<1, 3>>}

InitRerun ==
    /\ trees \in RerunTrees
    /\ depths \in RerunDepths
    /\ \E tr \in TrainSets : x_train_scaled = tr.X /\ y_train = tr.y
    /\ \E te \in TestSets : x_test_scaled = te.X /\ y_test = te.y
    /\ rng \in 0..(RngMod - 1)
    /\ SweepIdle
    /\ PrepUnused

\* RunEditedSweepCell that unbinds results_df when the cell starts
RunEditedSweepCell_ClearTable ==
    /\ pc \in {"idle", "done", "raised"}
    /\ run < MaxRuns
    /\ \E ts \in RerunTrees, ds \in RerunDepths :
          /\ trees' = ts
          /\ depths' = ds
          /\ history' = Append(history, NewExecution(rng, ts, ds, x_test_scaled))
    /\ run' = run + 1
    /\ tree_count' = <<>> /\ tree_depth' = <<>>
    /\ tuned_rf_MSE' = <<>> /\ tuned_rf_R2' = <<>>
    /\ ti' = 0 /\ di' = 0
    /\ nInst' = 0 /\ nFit' = 0 /\ nPred' = 0
    /\ raised' = "none"
    /\ pc' = "for_tree"
    /\ results_df' = NoTable
    /\ UNCHANGED <<x_train_scaled, y_train, x_test_scaled, y_test,
                   tree, depth, tuned_rf_model, y_pred_tuned_rf,
                   rng, dfRun, prepVars>>

\* RunEditedSweepCell that keeps the accumulators of the previous execution
RunEditedSweepCell_NoReset ==
    /\ pc \in {"idle", "done", "raised"}
    /\ run < MaxRuns
    /\ \E ts \in RerunTrees, ds \in RerunDepths :
          /\ trees' = ts
          /\ depths' = ds
          /\ history' = Append(history, NewExecution(rng, ts, ds, x_test_scaled))
    /\ run' = run + 1
    /\ ti' = 0 /\ di' = 0
    /\ nInst' = 0 /\ nFit' = 0 /\ nPred' = 0
    /\ raised' = "none"
    /\ pc' = "for_tree"
    /\ UNCHANGED <<x_train_scaled, y_train, x_test_scaled, y_test,
                   tree_count, tree_depth, tuned_rf_MSE, tuned_rf_R2,
                   tree, depth, tuned_rf_model, y_pred_tuned_rf,
                   results_df, rng, dfRun, prepVars>>

\* the sweep cell executed with the literals of trees = [...] and
\* depths = [...] as they stand in the cell, edited or not since the last
\* execution: the two names are bound, the four accumulators rebound to []
RunEditedSweepCell ==
    /\ pc \in {"idle", "done", "raised"}
    /\ run < MaxRuns
    /\ \E ts \in RerunTrees, ds \in RerunDepths :
          /\ trees' = ts
          /\ depths' = ds
          /\ history' = Append(history, NewExecution(rng, ts, ds, x_test_scaled))
    /\ run' = run + 1
    /\ tree_count' = <<>> /\ tree_depth' = <<>>
    /\ tuned_rf_MSE' = <<>> /\ tuned_rf_R2' = <<>>
    /\ ti' = 0 /\ di' = 0
    /\ nInst' = 0 /\ nFit' = 0 /\ nPred' = 0
    /\ raised' = "none"
    /\ pc' = "for_tree"
    /\ UNCHANGED <<x_train_scaled, y_train, x_test_scaled, y_test,
                   tree, depth, tuned_rf_model, y_pred_tuned_rf,
                   results_df, rng, dfRun, prepVars>>

\* the split and scaling cells executed again on other data: x_test_scaled and
\* y_test are rebound, the train partition is the same
RebuildTestPartition ==
    /\ pc \in {"done", "raised"}
    /\ run < MaxRuns
    /\ \E te \in TestSets :
          /\ te.X # x_test_scaled
          /\ x_test_scaled' = te.X
          /\ y_test' = te.y
    /\ UNCHANGED <<trees, depths, x_train_scaled, y_train,
                   tree_count, tree_depth, tuned_rf_MSE, tuned_rf_R2,
                   tree, depth, ti, di, tuned_rf_model, y_pred_tuned_rf,
                   results_df, rng, pc, raised, run, nInst, nFit, nPred, dfRun,
                   history, prepVars>>

NextRerun ==
    \/ RunEditedSweepCell
    \/ RebuildTestPartition
    \/ ForTree
    \/ ForDepth
    \/ Instantiate
    \/ Fit
    \/ Predict
    \/ AppendTreeCount
    \/ AppendTreeDepth
    \/ AppendMSE
    \/ AppendR2
    \/ BuildResultsDf

SpecRerun == InitRerun /\ [][NextRerun]_vars

----------------------------------------------------------------------------
(* The linear-regression cell and the default random-forest cell, executed
   in any order and any number of times *)

InitResults ==
    /\ trees = <<50, 100>> /\ depths = <<1, 3>>
    /\ \E tr \in TrainSets : x_train_scaled = tr.X /\ y_train = tr.y
    /\ \E te \in TestSets : x_test_scaled = te.X /\ y_test = te.y
    /\ rng \in 0..(RngMod - 1)
    /\ SweepIdle
    /\ PrepUnused

\* what the two cells leave alone
CmpFrame ==
    <<trees, depths, x_train_scaled, y_train, x_test_scaled, y_test,
      tree_count, tree_depth, tuned_rf_MSE, tuned_rf_R2, tree, depth, ti, di,
      tuned_rf_model, y_pred_tuned_rf, results_df, run, nInst, nFit, nPred,
      dfRun, history, x, x_train, x_test, scaler, cv, featVars>>

\* multi_feature_model = LinearRegression()
LrCreate ==
    /\ pc \in {"idle", "raised"}
    /\ multi_feature_model' = LinearRegression
    /\ raised' = "none"
    /\ pc' = "lr_fit"
    /\ UNCHANGED <<CmpFrame, rng, y_pred_linear_multi, default_rf_model,
                   y_pred_default_rf, default_rf_model_results, results, rfRuns>>

\* multi_feature_model.fit(x_train_scaled, y_train)
LrFit ==
    /\ pc = "lr_fit"
    /\ \/ /\ LinearFitErrors(x_train_scaled) = {}
          /\ multi_feature_model' =
                LinearFitted(multi_feature_model, x_train_scaled, y_train)
          /\ pc' = "lr_predict"
          /\ UNCHANGED raised
       \/ /\ \E e \in LinearFitErrors(x_train_scaled) : raised' = e
          /\ pc' = "raised"
          /\ UNCHANGED multi_feature_model
    /\ UNCHANGED <<CmpFrame, rng, y_pred_linear_multi, default_rf_model,
                   y_pred_default_rf, default_rf_model_results, results, rfRuns>>

\* y_pred_linear_multi = multi_feature_model.predict(x_test_scaled)
LrPredict ==
    /\ pc = "lr_predict"
    /\ \/ /\ PredictErrors(multi_feature_model, x_test_scaled) = {}
          /\ y_pred_linear_multi' =
                LinearPredictRows(multi_feature_model, x_test_scaled)
          /\ pc' = "lr_results"
          /\ UNCHANGED raised
       \/ /\ \E e \in PredictErrors(multi_feature_model, x_test_scaled) : raised' = e
          /\ pc' = "raised"
          /\ UNCHANGED y_pred_linear_multi
    /\ UNCHANGED <<CmpFrame, rng, multi_feature_model, default_rf_model,
                   y_pred_default_rf, default_rf_model_results, results, rfRuns>>

\* results = pd.DataFrame({...}, index=["Multi-Linear-Regression"])
LrResults ==
    /\ pc = "lr_results"
    /\ results' = ScoreTable("Multi-Linear-Regression", y_test, y_pred_linear_multi)
    /\ rfRuns' = 0
    /\ pc' = "idle"
    /\ UNCHANGED <<CmpFrame, rng, raised, multi_feature_model, y_pred_linear_multi,
                   default_rf_model, y_pred_default_rf, default_rf_model_results>>

\* default_rf_model = RandomForestRegressor()
RfCreate ==
    /\ pc \in {"idle", "raised"}
    /\ rfRuns < MaxRfRuns
    /\ default_rf_model' = DefaultRandomForestRegressor
    /\ raised' = "none"
    /\ pc' = "rf_fit"
    /\ UNCHANGED <<CmpFrame, rng, multi_feature_model, y_pred_linear_multi,
                   y_pred_default_rf, default_rf_model_results, results, rfRuns>>

\* default_rf_model.fit(x_train_scaled, y_train)
RfFit ==
    /\ pc = "rf_fit"
    /\ \/ /\ FitErrors(default_rf_model, x_train_scaled) = {}
          /\ default_rf_model' =
                FittedModel(default_rf_model, x_train_scaled, y_train, rng)
          /\ rng' = (rng + 1) % RngMod
          /\ pc' = "rf_predict"
          /\ UNCHANGED raised
       \/ /\ \E e \in FitErrors(default_rf_model, x_train_scaled) : raised' = e
          /\ pc' = "raised"
          /\ UNCHANGED <<default_rf_model, rng>>
    /\ UNCHANGED <<CmpFrame, multi_feature_model, y_pred_linear_multi,
                   y_pred_default_rf, default_rf_model_results, results, rfRuns>>

\* y_pred_default_rf = default_rf_model.predict(x_test_scaled)
RfPredict ==
    /\ pc = "rf_predict"
    /\ \/ /\ PredictErrors(default_rf_model, x_test_scaled) = {}
          /\ y_pred_default_rf' = PredictRows(default_rf_model, x_test_scaled)
          /\ pc' = "rf_results"
          /\ UNCHANGED raised
       \/ /\ \E e \in PredictErrors(default_rf_model, x_test_scaled) : raised' = e
          /\ pc' = "raised"
          /\ UNCHANGED y_pred_default_rf
    /\ UNCHANGED <<CmpFrame, rng, multi_feature_model, y_pred_linear_multi,
                   default_rf_model, default_rf_model_results, results, rfRuns>>

\* default_rf_model_results = pd.DataFrame({...}, index=["Default_RF_Regression"])
RfResults ==
    /\ pc = "rf_results"
    /\ default_rf_model_results' =
          ScoreTable("Default_RF_Regression", y_test, y_pred_default_rf)
    /\ pc' = "rf_concat"
    /\ UNCHANGED <<CmpFrame, rng, raised, multi_feature_model, y_pred_linear_multi,
                   default_rf_model, y_pred_default_rf, results, rfRuns>>

\* RfConcat that replaces the row that bears the label of the new row
RfConcat_Replace ==
    /\ pc = "rf_concat"
    /\ \/ /\ results # NoResults
          /\ results' =
                concat(SelectSeq(results,
                                 LAMBDA r : r.index # default_rf_model_results[1].index),
                       default_rf_model_results)
          /\ rfRuns' = rfRuns + 1
          /\ pc' = "idle"
          /\ UNCHANGED raised
       \/ /\ results = NoResults
          /\ raised' = "NameError"
          /\ pc' = "raised"
          /\ UNCHANGED <<results, rfRuns>>
    /\ UNCHANGED <<CmpFrame, rng, multi_feature_model, y_pred_linear_multi,
                   default_rf_model, y_pred_default_rf, default_rf_model_results>>

\* results = pd.concat([results, default_rf_model_results]); the name results
\* is read first, and is unbound before the linear-regression cell completed
RfConcat ==
    /\ pc = "rf_concat"
    /\ \/ /\ results # NoResults
          /\ results' = concat(results, default_rf_model_results)
          /\ rfRuns' = rfRuns + 1
          /\ pc' = "idle"
          /\ UNCHANGED raised
       \/ /\ results = NoResults
          /\ raised' = "NameError"
          /\ pc' = "raised"
          /\ UNCHANGED <<results, rfRuns>>
    /\ UNCHANGED <<CmpFrame, rng, multi_feature_model, y_pred_linear_multi,
                   default_rf_model, y_pred_default_rf, default_rf_model_results>>

NextResults ==
    \/ LrCreate
    \/ LrFit
    \/ LrPredict
    \/ LrResults
    \/ RfCreate
    \/ RfFit
    \/ RfPredict
    \/ RfResults
    \/ RfConcat

SpecResults == InitResults /\ [][NextResults]_vars

----------------------------------------------------------------------------
(* The data loading cell, the descriptor cells and the feature-matrix
   statement, executed in the order of the notebook; a cell that raises
   leaves the session as it was, and the next cell can still be executed *)

InitFeatures ==
    /\ trees = <<50, 100>> /\ depths = <<1, 3>>
    /\ x_train_scaled = <<>> /\ y_train = <<>>
    /\ x_test_scaled = <<>> /\ y_test = <<>>
    /\ rng = 0
    /\ SweepIdle
    /\ x = <<>> /\ x_train = <<>> /\ x_test = <<>>
    /\ scaler = NoScaler /\ cv = NoCv
    /\ CmpUnused
    /\ csv \in SeqUpTo(SmilesFields, MaxMols)
    /\ df = NoFrame
    /\ aborted = {}

\* what the data loading and descriptor cells leave alone
FeatFrame ==
    <<trees, depths, x_train_scaled, y_train, x_test_scaled, y_test,
      tree_count, tree_depth, tuned_rf_MSE, tuned_rf_R2, tree, depth, ti, di,
      tuned_rf_model, y_pred_tuned_rf, results_df, rng, run, nInst, nFit,
      nPred, dfRun, history, x_train, x_test, scaler, cv, cmpVars, csv>>

\* the values of column mol, row by row
MolColumn == [k \in 1..Len(df.rows) |-> df.rows[k]["mol"]]

\* df[col] = df['mol'].apply(F) in the cell at here, vals being the values
\* of F row by row: df['mol'] raises KeyError when there is no such column,
\* F raises err on None, and the column is assigned only when F returned
\* for every row
ApplyToMol(here, next, col, err, vals) ==
    /\ pc = here
    /\ pc' = next
    /\ \/ /\ ~HasColumn(df, "mol")
          /\ raised' = "KeyError"
          /\ aborted' = aborted \cup {here}
          /\ UNCHANGED df
       \/ /\ HasColumn(df, "mol")
          /\ \E k \in 1..Len(df.rows) : MolColumn[k] = None
          /\ raised' = err
          /\ aborted' = aborted \cup {here}
          /\ UNCHANGED df
       \/ /\ HasColumn(df, "mol")
          /\ \A k \in 1..Len(df.rows) : MolColumn[k] # None
          /\ df' = WithColumn(df, col, vals)
          /\ raised' = "none"
          /\ UNCHANGED aborted
    /\ UNCHANGED <<FeatFrame, x>>

\* df = pd.read_csv(data_path)
ReadCsvCell ==
    /\ pc = "idle"
    /\ df' = read_csv(csv)
    /\ pc' = "mol"
    /\ UNCHANGED <<FeatFrame, x, raised, aborted>>

\* MolCell that leaves out the lines whose smiles is missing or does not parse
MolCell_DropBad ==
    /\ pc = "mol"
    /\ pc' = "mol_weight"
    /\ LET good == SelectSeq(df.rows,
                             LAMBDA r : /\ ~MolFromSmilesRaises(r["smiles"])
                                        /\ MolFromSmiles(r["smiles"]) # None)
           kept == [df EXCEPT !.rows = good]
       IN  df' = WithColumn(kept, "mol",
                            [k \in 1..Len(good) |-> MolFromSmiles(good[k]["smiles"])])
    /\ raised' = "none"
    /\ UNCHANGED <<FeatFrame, x, aborted>>

\* df['mol'] = df['smiles'].apply(Chem.MolFromSmiles)
MolCell ==
    /\ pc = "mol"
    /\ pc' = "mol_weight"
    /\ \/ /\ \E k \in 1..Len(df.rows) : MolFromSmilesRaises(df.rows[k]["smiles"])
          /\ raised' = "TypeError"
          /\ aborted' = aborted \cup {"mol"}
          /\ UNCHANGED df
       \/ /\ \A k \in 1..Len(df.rows) : ~MolFromSmilesRaises(df.rows[k]["smiles"])
          /\ df' = WithColumn(df, "mol",
                              [k \in 1..Len(df.rows) |->
                                  MolFromSmiles(df.rows[k]["smiles"])])
          /\ raised' = "none"
          /\ UNCHANGED aborted
    /\ UNCHANGED <<FeatFrame, x>>

\* df['mol_weight'] = df['mol'].apply(Descriptors.MolWt)
MolWtCell ==
    ApplyToMol("mol_weight", "rot_bonds", "mol_weight", "TypeError",
               [k \in 1..Len(df.rows) |-> MolWt(MolColumn[k])])

\* df['rot_bonds'] = df['mol'].apply(Chem.rdMolDescriptors.CalcNumRotatableBonds)
RotBondsCell ==
    ApplyToMol("rot_bonds", "clogP", "rot_bonds", "TypeError",
               [k \in 1..Len(df.rows) |-> CalcNumRotatableBonds(MolColumn[k])])

\* df['clogP'] = df['mol'].apply(Chem.Crippen.MolLogP)
ClogPCell ==
    ApplyToMol("clogP", "aromatic_ratio", "clogP", "TypeError",
               [k \in 1..Len(df.rows) |-> MolLogP(MolColumn[k])])

\* df['aromatic_ratio'] = df['mol'].apply(aromatic_calc)
AromaticCell ==
    ApplyToMol("aromatic_ratio", "feature_matrix", "aromatic_ratio",
               "AttributeError",
               [k \in 1..Len(df.rows) |-> aromatic_calc(MolColumn[k])])

\* x = df.drop(columns=['logS', 'smiles', 'mol', 'Compound ID'])
FeatureMatrixCell ==
    /\ pc = "feature_matrix"
    /\ pc' = "features_done"
    /\ \/ /\ \E c \in DroppedColumns : ~HasColumn(df, c)
          /\ raised' = "KeyError"
          /\ aborted' = aborted \cup {"feature_matrix"}
          /\ UNCHANGED x
       \/ /\ \A c \in DroppedColumns : HasColumn(df, c)
          /\ x' = drop(df, DroppedColumns)
          /\ raised' = "none"
          /\ UNCHANGED aborted
    /\ UNCHANGED <<FeatFrame, df>>

NextFeatures ==
    \/ ReadCsvCell
    \/ MolCell
    \/ MolWtCell
    \/ RotBondsCell
    \/ ClogPCell
    \/ AromaticCell
    \/ FeatureMatrixCell

SpecFeatures == InitFeatures /\ [][NextFeatures]_vars

----------------------------------------------------------------------------
(* The split, scaling and cross-validation cells *)

\* the sweep cell is not part of these cells: its names keep fixed values
SweepUnused ==
    /\ trees = <<50, 100>> /\ depths = <<1, 3>>
    /\ y_train = <<>> /\ y_test = <<>>
    /\ rng = 0
    /\ SweepIdle

InitScaling ==
    /\ x \in [1..NRows -> FeatVals]
    /\ x_train = <<>> /\ x_test = <<>>
    /\ x_train_scaled = <<>> /\ x_test_scaled = <<>>
    /\ scaler = NoScaler
    /\ cv = NoCv
    /\ CmpUnused
    /\ FeatUnused
    /\ SweepUnused

\* what the scaling and cross-validation cells leave alone
ScalingFrame ==
    <<trees, depths, y_train, y_test, tree_count, tree_depth, tuned_rf_MSE,
      tuned_rf_R2, tree, depth, ti, di, tuned_rf_model, y_pred_tuned_rf,
      results_df, rng, raised, run, nInst, nFit, nPred, dfRun, history, x,
      cmpVars, featVars>>

\* x_train, x_test, ... = train_test_split(x, y, test_size=0.2, random_state=123)
SplitCell ==
    /\ pc = "idle"
    /\ x_train' = SplitTrain(x)
    /\ x_test' = SplitTest(x)
    /\ UNCHANGED <<ScalingFrame, pc, scaler, cv, x_train_scaled, x_test_scaled>>

\* scaler = StandardScaler()
ScalerCreate ==
    /\ pc = "idle"
    /\ x_train # <<>>
    /\ scaler.id < MaxScalerRuns
    /\ scaler' = StandardScaler(scaler.id + 1)
    /\ pc' = "scaler_fit_transform"
    /\ UNCHANGED <<ScalingFrame, x_train, x_test, cv, x_train_scaled, x_test_scaled>>

\* x_train_scaled = scaler.fit_transform(x_train)
ScalerFitTransform ==
    /\ pc = "scaler_fit_transform"
    /\ scaler' = ScalerFit(scaler, x_train)
    /\ x_train_scaled' = ScalerTransform(scaler', x_train)
    /\ pc' = "scaler_transform"
    /\ UNCHANGED <<ScalingFrame, x_train, x_test, cv, x_test_scaled>>

\* ScalerTransformTest written with fit_transform
ScalerTransformTest_Refit ==
    /\ pc = "scaler_transform"
    /\ scaler' = ScalerFit(scaler, x_test)
    /\ x_test_scaled' = ScalerTransform(scaler', x_test)
    /\ pc' = "idle"
    /\ UNCHANGED <<ScalingFrame, x_train, x_test, cv, x_train_scaled>>

\* x_test_scaled = scaler.transform(x_test)
ScalerTransformTest ==
    /\ pc = "scaler_transform"
    /\ x_test_scaled' = ScalerTransform(scaler, x_test)
    /\ pc' = "idle"
    /\ UNCHANGED <<ScalingFrame, x_train, x_test, scaler, cv, x_train_scaled>>

\* make_pipeline(scaler, ...) twice, kf = KFold(...); the first
\* cross_val_score starts
CvStart ==
    /\ pc = "idle"
    /\ scaler.fitted
    /\ cv' = [pipeline |-> 1, fold |-> 0, est |-> NoScaler]
    /\ pc' = "cv_fold"
    /\ UNCHANGED <<ScalingFrame, x_train, x_test, scaler, x_train_scaled, x_test_scaled>>

\* one fold of cross_val_score(pipeline, x, y, cv=kf): the estimator is
\* cloned, the clone is fit on the training rows of the fold; fitting
\* changes the object fitted, under whatever name it is known
CvFold ==
    /\ pc = "cv_fold"
    /\ cv.fold < n_splits
    /\ LET est == ScalerFit(Clone(scaler), FoldTrain(x, cv.fold + 1))
       IN  /\ cv' = [cv EXCEPT !.fold = @ + 1, !.est = est]
           /\ scaler' = IF est.id = scaler.id THEN est ELSE scaler
    /\ UNCHANGED <<ScalingFrame, pc, x_train, x_test, x_train_scaled, x_test_scaled>>

\* the first cross_val_score returns, the second one starts
CvNextPipeline ==
    /\ pc = "cv_fold"
    /\ cv.fold = n_splits /\ cv.pipeline = 1
    /\ cv' = [cv EXCEPT !.pipeline = 2, !.fold = 0]
    /\ UNCHANGED <<ScalingFrame, pc, x_train, x_test, scaler, x_train_scaled, x_test_scaled>>

\* the second cross_val_score returns; the cell prints and ends
CvDone ==
    /\ pc = "cv_fold"
    /\ cv.fold = n_splits /\ cv.pipeline = 2
    /\ pc' = "idle"
    /\ UNCHANGED <<ScalingFrame, x_train, x_test, scaler, cv, x_train_scaled, x_test_scaled>>

NextScaling ==
    \/ SplitCell
    \/ ScalerCreate
    \/ ScalerFitTransform
    \/ ScalerTransformTest
    \/ CvStart
    \/ CvFold
    \/ CvNextPipeline
    \/ CvDone

SpecScaling == InitScaling /\ [][NextScaling]_vars

----------------------------------------------------------------------------
(* The grid of the sweep *)

\* number of cells of the grid
NCells == Len(trees) * Len(depths)

\* n_estimators and max_depth of the k-th cell in row-major order (k from 1)
CellTree(k) == trees[((k - 1) \div Len(depths)) + 1]
CellDepth(k) == depths[((k - 1) % Len(depths)) + 1]

\* row-major index of the cell the loops are in
CurrentCell == (ti - 1) * Len(depths) + di

GridNonEmpty == trees # <<>> /\ depths # <<>>

HasNonPositive ==
    \/ \E i \in 1..Len(trees) : trees[i] <= 0
    \/ \E j \in 1..Len(depths) : depths[j] <= 0

BadCell(k) == CellTree(k) <= 0 \/ CellDepth(k) <= 0

\* the first cell, in row-major order, with a non-positive value
FirstBadCell == CHOOSE k \in 1..NCells : BadCell(k) /\ \A l \in 1..(k - 1) : ~BadCell(l)

TrainEmpty == Len(x_train_scaled.rows) = 0
TestEmpty == Len(x_test_scaled.rows) = 0
SchemasDiffer == x_train_scaled.n_features # x_test_scaled.n_features

\* non-empty partitions with the same columns
PartitionsValid == ~TrainEmpty /\ ~TestEmpty /\ ~SchemasDiffer

\* the four accumulators hold n entries each
AccLen(n) ==
    /\ Len(tree_count) = n /\ Len(tree_depth) = n
    /\ Len(tuned_rf_MSE) = n /\ Len(tuned_rf_R2) = n

\* number of positions of s holding v
Count(s, v) == Cardinality({i \in 1..Len(s) : s[i] = v})

----------------------------------------------------------------------------
(* C1: for non-empty trees and depths, a sweep that completes yields exactly
   Len(trees) * Len(depths) rows, and row k (from 0) carries
   trees[k div Len(depths)] and depths[k mod Len(depths)]. *)
C1_RowMajorOrder ==
    (pc = "done" /\ GridNonEmpty) =>
        /\ Len(results_df) = NCells
        /\ \A k \in 1..NCells :
              /\ results_df[k].Number_of_trees = CellTree(k)
              /\ results_df[k].Max_depth = CellDepth(k)

\* trees = [50, 100], depths = [1, 3] completed with (50,1),(50,3),(100,1),(100,3)
C1_Witness ==
    /\ pc = "done"
    /\ trees = <<50, 100>> /\ depths = <<1, 3>>
    /\ [k \in 1..Len(results_df) |->
          <<results_df[k].Number_of_trees, results_df[k].Max_depth>>]
       = << <<50, 1>>, <<50, 3>>, <<100, 1>>, <<100, 3>> >>

(* C2 as stated: whenever some value is non-positive the sweep fails with
   InvalidHyperparameter and no fit has been performed at that moment,
   wherever the value sits.  Stated for its most favourable inputs: a
   non-empty grid and valid partitions. *)
C2_NoFitBeforeInvalidHyperparameter ==
    (HasNonPositive /\ GridNonEmpty /\ PartitionsValid /\ pc = "raised") =>
        (raised = "InvalidHyperparameter" /\ nFit = 0)

(* C2 amended: with a non-empty grid and valid partitions, a non-positive
   value makes the sweep fail with InvalidHyperparameter at the fit of the
   first row-major cell that holds one; the cells before it have been fit
   and recorded, so no fit precedes the failure exactly when that cell is
   the first of the grid; and the sweep never completes. *)
C2_FailsAtFirstBadCell ==
    (HasNonPositive /\ GridNonEmpty /\ PartitionsValid) =>
        /\ pc # "done"
        /\ nInst <= FirstBadCell
        /\ pc = "raised" =>
              /\ raised = "InvalidHyperparameter"
              /\ CurrentCell = FirstBadCell
              /\ nFit = FirstBadCell - 1
              /\ AccLen(FirstBadCell - 1)
              /\ (nFit = 0) <=> (trees[1] <= 0 \/ depths[1] <= 0)

\* trees = [50, 0]: the failure comes after the fits of the row of 50
C2_Witness ==
    /\ pc = "raised" /\ raised = "InvalidHyperparameter"
    /\ trees = <<50, 0>> /\ depths = <<1, 3>>
    /\ PartitionsValid
    /\ nFit = 2

(* C3 as stated: when the train and test matrices have different columns the
   sweep fails with SchemaMismatch and no fit call precedes the error. *)
C3_NoFitBeforeSchemaMismatch ==
    raised = "SchemaMismatch" => nFit = 0

(* C3 amended: when the train and test matrices have different columns, no
   prediction is ever made and no result recorded; with non-empty
   partitions and a valid first cell the sweep fails with SchemaMismatch at
   the predict of the first cell, after exactly one fit. *)
C3_SchemaMismatchAtFirstPredict ==
    SchemasDiffer =>
        /\ nPred = 0 /\ AccLen(0)
        /\ (pc = "done" => ~GridNonEmpty)
        /\ raised = "SchemaMismatch" => (nFit = 1 /\ nInst = 1 /\ CurrentCell = 1)
        /\ (pc = "raised" /\ ~TrainEmpty /\ ~TestEmpty /\ ~BadCell(1)) =>
              raised = "SchemaMismatch"

\* 3 training columns against 4 test columns, failed at the first predict
C3_Witness ==
    /\ pc = "raised" /\ raised = "SchemaMismatch"
    /\ x_train_scaled.n_features = 3 /\ x_test_scaled.n_features = 4
    /\ tuned_rf_model.fitted

\* what holds whenever the loops are between two cells or the cell has ended
BetweenCells ==
    /\ nFit = nInst /\ nPred = nInst /\ AccLen(nInst)

(* C4: a failure in the fit or predict of one grid cell aborts the sweep:
   the error reaches the caller, the failing cell is the last one
   instantiated, it is not skipped (the loops never go on with a cell left
   unrecorded), this execution assigns no result table, and the only step
   after the failure is a new execution of the whole cell. *)
C4_FailureAbortsSweep ==
    /\ [](pc = "raised" =>
            /\ raised # "none"
            /\ dfRun # run
            /\ nInst = CurrentCell
            /\ AccLen(CurrentCell - 1))
    /\ [](pc \in {"for_tree", "for_depth", "build_df", "done"} =>
            (raised = "none" /\ BetweenCells))
    /\ [][pc = "raised" => (pc' = "for_tree" /\ run' = run + 1 /\ nInst' = 0)]_vars

\* a failure in a cell that is neither the first nor the last of the grid
C4_Witness ==
    /\ pc = "raised"
    /\ CurrentCell > 1 /\ CurrentCell < NCells
    /\ nInst = CurrentCell

(* C5 as stated: the sweep fails with EmptyDataset if either partition has
   zero rows. *)
C5_EmptyPartitionFails ==
    ((TrainEmpty \/ TestEmpty) /\ pc \in {"done", "raised"}) =>
        (pc = "raised" /\ raised = "EmptyDataset")

(* C5 amended: if either partition has zero rows and the grid is non-empty,
   the sweep fails in its first cell and records nothing; the error is
   EmptyDataset when the first cell's tree count and depth are positive
   (at fit for an empty train partition, at predict after one fit for an
   empty test partition alone), and with a non-positive first cell it is
   EmptyDataset or InvalidHyperparameter. *)
C5_EmptyPartitionFailsInFirstCell ==
    ((TrainEmpty \/ TestEmpty) /\ GridNonEmpty) =>
        /\ pc # "done"
        /\ nInst <= 1 /\ nPred = 0 /\ AccLen(0)
        /\ pc = "raised" =>
              /\ CurrentCell = 1
              /\ raised \in {"EmptyDataset", "InvalidHyperparameter"}
              /\ ~BadCell(1) => raised = "EmptyDataset"
              /\ nFit = (IF TrainEmpty \/ BadCell(1) THEN 0 ELSE 1)

\* an empty test partition alone: EmptyDataset at predict, after one fit
C5_Witness ==
    /\ pc = "raised" /\ raised = "EmptyDataset"
    /\ TestEmpty /\ ~TrainEmpty
    /\ nFit = 1

(* C6: no deduplication and no sorting: on completion every pair of
   positions of trees and depths has its own fit and its own row, a value
   pair (a, b) has as many rows as a has positions in trees times b has in
   depths, and row k is the record of the k-th cell evaluated, whatever
   the scores are. *)
C6_NoDedupNoSort ==
    pc = "done" =>
        /\ nFit = NCells
        /\ Len(results_df) = NCells
        /\ \A a \in TreeVals, b \in DepthVals :
              Cardinality({k \in 1..Len(results_df) :
                              /\ results_df[k].Number_of_trees = a
                              /\ results_df[k].Max_depth = b})
                 = Count(trees, a) * Count(depths, b)
        /\ \A k \in 1..Len(results_df) :
              results_df[k] = [Number_of_trees |-> CellTree(k),
                               Max_depth |-> CellDepth(k),
                               MSE |-> tuned_rf_MSE[k],
                               R2 |-> tuned_rf_R2[k]]

\* repeated values in both lists, and scores that go down and up again
C6_Witness ==
    /\ pc = "done"
    /\ trees = <<50, 50>> /\ depths = <<3, 3>>
    /\ Len(results_df) = 4
    /\ results_df[1].MSE.num > results_df[2].MSE.num
    /\ results_df[2].MSE.num < results_df[3].MSE.num

(* C7: no step of the sweep changes the train partition, the test
   partition or the two hyperparameter lists. *)
C7_InputsUnchanged ==
    [][/\ x_train_scaled' = x_train_scaled /\ y_train' = y_train
       /\ x_test_scaled' = x_test_scaled /\ y_test' = y_test
       /\ trees' = trees /\ depths' = depths]_vars

\* a sweep over a full grid has completed
C7_Witness ==
    /\ pc = "done" /\ Len(trees) = 2 /\ Len(depths) = 2
    /\ nFit = 4 /\ nPred = 4

(* C8: every cell is evaluated with a freshly instantiated model: the object
   handed to fit is a new, unfitted one made for this cell, and the object
   that predicts was fitted in this cell with this cell's parameters. *)
C8_FreshModelPerCell ==
    /\ pc = "fit" =>
          /\ ~tuned_rf_model.fitted
          /\ tuned_rf_model.trained_on = <<>>
          /\ tuned_rf_model.n_estimators = tree
          /\ tuned_rf_model.max_depth = depth
    /\ pc \in {"fit", "predict"} =>
          /\ nInst = CurrentCell
          /\ tuned_rf_model.n_estimators = CellTree(CurrentCell)
          /\ tuned_rf_model.max_depth = CellDepth(CurrentCell)
    /\ pc = "predict" =>
          /\ tuned_rf_model.fitted
          /\ nFit = CurrentCell

\* the second cell is about to be fit while the first cell's model was fitted
C8_Witness ==
    /\ pc = "fit" /\ CurrentCell = 2 /\ nFit = 1
    /\ ~tuned_rf_model.fitted

\* s is a prefix of t
IsPrefix(s, t) == Len(s) <= Len(t) /\ \A k \in 1..Len(s) : t[k] = s[k]

(* C9: within one execution of the sweep the accumulators only grow at the
   end, an entry once appended keeps its value, and the table built at the
   end holds exactly those entries and is not changed afterwards by later
   steps of that execution. *)
C9_RecordsImmutable ==
    /\ [][run' = run =>
            /\ IsPrefix(tree_count, tree_count')
            /\ IsPrefix(tree_depth, tree_depth')
            /\ IsPrefix(tuned_rf_MSE, tuned_rf_MSE')
            /\ IsPrefix(tuned_rf_R2, tuned_rf_R2')
            /\ (dfRun = run => results_df' = results_df)]_vars
    /\ [](pc = "done" =>
            results_df = DataFrame(tree_count, tree_depth, tuned_rf_MSE, tuned_rf_R2))

\* a fourth record is about to be completed after three were appended
C9_Witness ==
    /\ pc = "append_r2" /\ Len(tuned_rf_R2) = 3 /\ Len(tuned_rf_MSE) = 4

(* C10: the scaling parameters are computed once, from x_train only: a
   fitted scaler holds the statistics of x_train after a single fit, the
   scaled test rows are computed with them, and no later step (the
   transform of x_test, the folds of both cross-validations) changes the
   fitted object. *)
C10_ScalerFitOnTrainOnly ==
    /\ [](scaler.fitted =>
            /\ scaler.n_fit = 1
            /\ scaler = ScalerFit(StandardScaler(scaler.id), x_train))
    /\ [](x_test_scaled # <<>> =>
            x_test_scaled = ScalerTransform(ScalerFit(NoScaler, x_train), x_test))
    /\ [][(scaler.fitted /\ scaler'.id = scaler.id) => scaler' = scaler]_vars

\* both cross-validations have run on data whose folds and test rows have
\* other statistics than x_train
C10_Witness ==
    /\ pc = "idle" /\ cv.pipeline = 2 /\ cv.fold = n_splits
    /\ scaler.fitted /\ x_test_scaled # <<>>
    /\ cv.est.fitted /\ cv.est.sum_ # scaler.sum_
    /\ SumSeq(x_test) * Len(x_train) # SumSeq(x_train) * Len(x_test)

(* C11: with the data, the split and the two lists fixed, an execution of
   the sweep that starts from the same generator state as an earlier,
   completed one yields, cell by cell, the MSE and R2 of that earlier
   execution. *)
C11_SameSeedSameScores ==
    (/\ dfRun >= 1 /\ dfRun < run
     /\ history[run].seed = history[dfRun].seed
     /\ history[run].trees = history[dfRun].trees
     /\ history[run].depths = history[dfRun].depths
     /\ history[run].test = history[dfRun].test) =>
        /\ Len(tuned_rf_MSE) <= Len(results_df)
        /\ \A k \in 1..Len(tuned_rf_MSE) : tuned_rf_MSE[k] = results_df[k].MSE
        /\ \A k \in 1..Len(tuned_rf_R2) : tuned_rf_R2[k] = results_df[k].R2

\* the second execution has scored all four cells from the seed of the
\* first one, and the scores are not all the same
C11_Witness ==
    /\ pc = "build_df" /\ run = 2 /\ dfRun = 1
    /\ history[2].seed = history[1].seed
    /\ Len(tuned_rf_R2) = 4 /\ Len(results_df) = 4
    /\ results_df[1].MSE # results_df[2].MSE

\* the lengths of the four accumulators, in the order they are appended to
AccLens == <<Len(tree_count), Len(tree_depth), Len(tuned_rf_MSE), Len(tuned_rf_R2)>>

(* C13: the sweep is strictly sequential: in cell k the steps instantiate,
   fit, predict and the four appends each happen once and in this order,
   cell k is appended before cell k+1 is instantiated, and on completion
   the numbers of fits, predictions and records all equal
   Len(trees) * Len(depths). *)
C13_StrictlySequential ==
    LET k == CurrentCell IN
    /\ pc = "instantiate" =>
          (nInst = k - 1 /\ nFit = k - 1 /\ nPred = k - 1 /\ AccLens = <<k - 1, k - 1, k - 1, k - 1>>)
    /\ pc = "fit" =>
          (nInst = k /\ nFit = k - 1 /\ nPred = k - 1 /\ AccLens = <<k - 1, k - 1, k - 1, k - 1>>)
    /\ pc = "predict" =>
          (nInst = k /\ nFit = k /\ nPred = k - 1 /\ AccLens = <<k - 1, k - 1, k - 1, k - 1>>)
    /\ pc = "append_tree_count" =>
          (nInst = k /\ nFit = k /\ nPred = k /\ AccLens = <<k - 1, k - 1, k - 1, k - 1>>)
    /\ pc = "append_tree_depth" =>
          (nInst = k /\ nFit = k /\ nPred = k /\ AccLens = <<k, k - 1, k - 1, k - 1>>)
    /\ pc = "append_mse" =>
          (nInst = k /\ nFit = k /\ nPred = k /\ AccLens = <<k, k, k - 1, k - 1>>)
    /\ pc = "append_r2" =>
          (nInst = k /\ nFit = k /\ nPred = k /\ AccLens = <<k, k, k, k - 1>>)
    /\ pc = "done" =>
          (nInst = NCells /\ nFit = NCells /\ nPred = NCells /\ Len(results_df) = NCells)

\* the third cell of four is half appended
C13_Witness ==
    /\ pc = "append_mse" /\ CurrentCell = 3 /\ NCells = 4
    /\ nFit = 3 /\ nPred = 3

\* the loops are between two cells, before the first one or after the last
AtCellBoundary == pc \in {"for_tree", "for_depth", "build_df", "done"}

\* cells completed when the loops are at a boundary
CellsDone == IF pc = "for_depth" THEN (ti - 1) * Len(depths) + di ELSE ti * Len(depths)

(* C15: at every cell boundary (before the first cell, after the last append
   of a cell, when the table is built) the four accumulators have the same
   length, the number of cells completed, and their k-th entries belong to
   the k-th cell; so every row of the table has all four fields. *)
C15_AccumulatorsAligned ==
    AtCellBoundary =>
        /\ AccLen(CellsDone)
        /\ \A k \in 1..CellsDone :
              /\ tree_count[k] = CellTree(k)
              /\ tree_depth[k] = CellDepth(k)
              /\ tuned_rf_MSE[k].den = Len(y_test)
              /\ tuned_rf_R2[k].num =
                    SStotN(y_test) - Len(y_test) * tuned_rf_MSE[k].num
        /\ pc = "done" =>
              /\ Len(results_df) = CellsDone
              /\ \A k \in 1..Len(results_df) :
                    /\ DOMAIN results_df[k] = {"Number_of_trees", "Max_depth", "MSE", "R2"}
                    /\ results_df[k].MSE = tuned_rf_MSE[k]
                    /\ results_df[k].R2 = tuned_rf_R2[k]

\* three cells of four are complete, one of them with a negative R2
C15_Witness ==
    /\ pc = "for_depth" /\ ti = 2 /\ di = 1 /\ Len(depths) = 2
    /\ AccLen(3)
    /\ \E k \in 1..3 : tuned_rf_R2[k].num < 0

(* C19: when trees or depths is empty, an execution of the sweep
   instantiates and fits no model, raises no error, and the table it
   builds has no rows. *)
C19_EmptyGridNoWork ==
    (~GridNonEmpty /\ run >= 1) =>
        /\ nInst = 0 /\ nFit = 0 /\ nPred = 0
        /\ tuned_rf_model = NoModel
        /\ history[run].fits = <<>>
        /\ raised = "none" /\ pc # "raised"
        /\ AccLen(0)
        /\ pc = "done" => (dfRun = run /\ Len(results_df) = 0)

\* two trees and no depth: the outer loop went through both trees, the table
\* was built and is empty
C19_Witness ==
    /\ pc = "done" /\ dfRun = run
    /\ trees = <<50, 100>> /\ depths = <<>>
    /\ ti = 2 /\ tree = 100
    /\ results_df = <<>>

\* executions i and j of the sweep cell ran on the same lists
SameGrid(i, j) ==
    /\ history[i].trees = history[j].trees
    /\ history[i].depths = history[j].depths

\* execution j of the sweep cell has ended, with a table or with an error
Ended(j) == j < run \/ pc \in {"done", "raised"}

(* C14 as stated: two executions of the sweep on the same lists and the same
   train partition, whatever their test partitions, have performed the same
   sequence of fit calls once both have ended. *)
C14_SameFitsWhateverTheTest ==
    \A i, j \in 1..Len(history) :
        (i < j /\ SameGrid(i, j) /\ Ended(j)) =>
            history[i].fits = history[j].fits

(* C14: every fit call of every execution gets the train partition and
   nothing else, with the hyperparameters of its cell in row-major order;
   of two executions on the same lists, the fit calls of one are a prefix
   of the fit calls of the other, and they are the same calls when both
   executions reached the same number of cells. *)
C14_FitOnTrainOnly ==
    /\ \A i \in 1..Len(history) :
          \A k \in 1..Len(history[i].fits) :
              LET h == history[i]
                  f == h.fits[k]
              IN  /\ f.X = x_train_scaled
                  /\ f.y = y_train
                  /\ f.n_estimators = h.trees[((k - 1) \div Len(h.depths)) + 1]
                  /\ f.max_depth = h.depths[((k - 1) % Len(h.depths)) + 1]
    /\ \A i, j \in 1..Len(history) :
          SameGrid(i, j) =>
              \/ IsPrefix(history[i].fits, history[j].fits)
              \/ IsPrefix(history[j].fits, history[i].fits)
    /\ (pc \in {"predict", "append_tree_count"} /\ tuned_rf_model.fitted) =>
          tuned_rf_model.trained_on = <<x_train_scaled, y_train>>

\* two executions on the same lists and different test partitions, the first
\* with its four fits, the second stopped by predict after its first fit
C14_Witness ==
    /\ run = 2 /\ pc = "raised" /\ raised = "SchemaMismatch"
    /\ SameGrid(1, 2)
    /\ history[1].test # history[2].test
    /\ Len(history[1].fits) = 4
    /\ Len(history[2].fits) = 1
    /\ history[2].fits[1] = history[1].fits[1]

\* table t is the full table of an execution on the lists of h: one row per
\* cell, in row-major order
FullTableOf(t, h) ==
    /\ Len(t) = Len(h.trees) * Len(h.depths)
    /\ \A k \in 1..Len(t) :
          /\ t[k].Number_of_trees = h.trees[((k - 1) \div Len(h.depths)) + 1]
          /\ t[k].Max_depth = h.depths[((k - 1) % Len(h.depths)) + 1]

\* the state of a failed execution: the records of the cells before the
\* failing one, and the table of the last execution that built one
FailedRunState ==
    pc = "raised" =>
        /\ CurrentCell >= 1
        /\ AccLen(CurrentCell - 1)
        /\ \A k \in 1..(CurrentCell - 1) :
              /\ tree_count[k] = CellTree(k)
              /\ tree_depth[k] = CellDepth(k)
        /\ dfRun < run
        /\ dfRun = 0 => results_df = NoTable
        /\ dfRun > 0 => FullTableOf(results_df, history[dfRun])

(* C16: when the cell at 0-based row-major index k fails, the accumulators
   hold the k records of the cells before it, in row-major order, and the
   execution does not assign results_df: no step but the last statement of
   a completed execution changes it, so it is unbound after a failed first
   execution and is the full table of the last completed execution after a
   failed re-execution. *)
C16_FailedRunKeepsTable ==
    /\ [] FailedRunState
    /\ [][pc # "build_df" => results_df' = results_df]_vars

\* a re-execution on other lists fails in its third cell, after a first
\* execution that built a table of two rows
C16_Witness ==
    /\ pc = "raised" /\ run = 2 /\ dfRun = 1
    /\ CurrentCell = 3 /\ raised = "InvalidHyperparameter"
    /\ Len(tuned_rf_R2) = 2
    /\ trees = <<50, 0>> /\ depths = <<1, 3>>
    /\ history[1].trees = <<100, 50>> /\ history[1].depths = <<3>>
    /\ Len(results_df) = 2 /\ results_df[1].Number_of_trees = 100

\* the table of a completed execution: one row per cell of the lists the
\* execution ran on, in row-major order, built from the four accumulators
CompletedRunState ==
    pc = "done" =>
        /\ dfRun = run
        /\ history[run].trees = trees /\ history[run].depths = depths
        /\ Len(results_df) = Len(trees) * Len(depths)
        /\ FullTableOf(results_df, history[run])
        /\ results_df = DataFrame(tree_count, tree_depth, tuned_rf_MSE, tuned_rf_R2)

(* C17: every execution of the sweep cell starts by emptying the four
   accumulators, so after any number of executions, completed or failed,
   a completed execution leaves results_df with exactly |trees| x |depths|
   rows in row-major order, never with rows of an earlier execution. *)
C17_RerunSameShape ==
    /\ [] CompletedRunState
    /\ [][run' = run + 1 =>
            /\ tree_count' = <<>> /\ tree_depth' = <<>>
            /\ tuned_rf_MSE' = <<>> /\ tuned_rf_R2' = <<>>]_vars

\* a first execution failed in its third cell and left two records in the
\* accumulators; the second execution, on other lists, completed
C17_Witness ==
    /\ pc = "done" /\ run = 2
    /\ history[1].trees = <<50, 0>> /\ history[1].depths = <<1, 3>>
    /\ Len(history[1].fits) = 2
    /\ trees = <<100, 50>> /\ depths = <<1, 3>>
    /\ Len(results_df) = 4
    /\ results_df[1].Number_of_trees = 100 /\ results_df[4].Number_of_trees = 50

\* the labels of the rows of the comparison table
Labels == [k \in 1..Len(results) |-> results[k].index]

\* no label appears on two rows
LabelsUnique == \A i, j \in 1..Len(results) : Labels[i] = Labels[j] => i = j

\* the comparison table once the linear-regression cell has completed
ResultsShape ==
    results # NoResults =>
        /\ Len(results) = 1 + rfRuns
        /\ Labels[1] = "Multi-Linear-Regression"
        /\ \A k \in 2..Len(results) : Labels[k] = "Default_RF_Regression"
        /\ LabelsUnique <=> rfRuns <= 1

(* C18: the linear-regression cell rebinds results to a table of the single
   row "Multi-Linear-Regression", and each completed execution of the
   default random-forest cell appends one row "Default_RF_Regression" and
   keeps the rows before it; after one execution of the former and k of the
   latter the table has 1 + k rows, with unique labels only when k <= 1. *)
C18_ResultsGrowByOne ==
    /\ [] ResultsShape
    /\ [][(pc = "lr_results" /\ pc' = "idle") =>
            (Len(results') = 1 /\ rfRuns' = 0)]_vars
    /\ [][(pc = "rf_concat" /\ pc' = "idle") =>
            /\ Len(results') = Len(results) + 1
            /\ IsPrefix(results, results')
            /\ rfRuns' = rfRuns + 1]_vars
    /\ [][results' # results => (pc \in {"lr_results", "rf_concat"} /\ pc' = "idle")]_vars

\* the default random-forest cell completed twice after the linear-regression
\* cell: three rows, the last two with the same label
C18_Witness ==
    /\ pc = "idle" /\ rfRuns = 2
    /\ Len(results) = 3
    /\ Labels = <<"Multi-Linear-Regression", "Default_RF_Regression",
                  "Default_RF_Regression">>
    /\ results[3] = default_rf_model_results[1]
    /\ ~LabelsUnique

\* line k of the data file has no identifier, or one that does not parse
Missing(k) == csv[k] = ""
Unparsable(k) == csv[k] # "" /\ MolFromSmiles(csv[k]) = None
HasMissing == \E k \in 1..Len(csv) : Missing(k)
HasBadLine == \E k \in 1..Len(csv) : Missing(k) \/ Unparsable(k)

\* the descriptor cells, which bear the names of the columns they assign
DescriptorCells == <<"mol_weight", "rot_bonds", "clogP", "aromatic_ratio">>
DescriptorCellSet == {DescriptorCells[i] : i \in 1..Len(DescriptorCells)}

\* the cells in the order of the notebook; cell c has been executed when the
\* kernel is past it
CellOrder ==
    <<"idle", "mol", "mol_weight", "rot_bonds", "clogP", "aromatic_ratio",
      "feature_matrix", "features_done">>
Pos(c) == CHOOSE i \in 1..Len(CellOrder) : CellOrder[i] = c
Executed(c) == Pos(pc) > Pos(c)

\* x was assigned by the feature-matrix statement
FeatureMatrixBuilt == pc = "features_done" /\ "feature_matrix" \notin aborted

(* C12 as stated: when a line has a missing or unparsable identifier, the
   parsing and descriptor cells do not abort, and the feature matrix has no
   row for such a line. *)
C12_BadRowsExcludedOrFlagged ==
    HasBadLine =>
        /\ aborted \cap ({"mol"} \cup DescriptorCellSet) = {}
        /\ FeatureMatrixBuilt =>
              Len(x.rows) = Cardinality({k \in 1..Len(csv) :
                                            ~Missing(k) /\ ~Unparsable(k)})

(* C12: nothing excludes or flags a line: df keeps one row per line and
   gets no column but mol and the descriptors.  A missing identifier makes
   the parsing cell raise and assign no mol column, and then every
   descriptor cell and the feature-matrix statement raise too.  An
   unparsable identifier is stored as None in mol, every descriptor cell
   raises on it and assigns no column, and the feature matrix is built with
   a row for every line and no descriptor column at all.  Only a file
   without such a line gets its four descriptors. *)
C12_BadRowsAbortDescriptors ==
    pc # "idle" =>
        /\ Len(df.rows) = Len(csv)
        /\ \A i \in 1..Len(df.cols) :
              df.cols[i] \in {"Compound ID", "smiles", "logS", "mol"}
                                \cup DescriptorCellSet
        /\ Executed("mol") =>
              /\ "mol" \in aborted <=> HasMissing
              /\ HasColumn(df, "mol") <=> ~HasMissing
              /\ HasColumn(df, "mol") =>
                    \A k \in 1..Len(csv) : (MolColumn[k] = None) <=> Unparsable(k)
        /\ \A c \in DescriptorCellSet :
              Executed(c) =>
                  /\ c \in aborted <=> HasBadLine
                  /\ HasColumn(df, c) <=> ~HasBadLine
        /\ pc = "features_done" => ("feature_matrix" \in aborted <=> HasMissing)
        /\ FeatureMatrixBuilt =>
              /\ Len(x.rows) = Len(csv)
              /\ x.cols = IF HasBadLine THEN <<>> ELSE DescriptorCells
              /\ ~HasBadLine =>
                    \A k \in 1..Len(csv) :
                        /\ x.rows[k]["mol_weight"] = MolFromSmiles(csv[k]).MolWt
                        /\ x.rows[k]["aromatic_ratio"].den = MolFromSmiles(csv[k]).NumAtoms

\* ethanol and a string that does not parse: the four descriptor cells
\* raised, and the feature matrix has two rows and no column
C12_Witness ==
    /\ csv = <<"CCO", "C(">>
    /\ FeatureMatrixBuilt
    /\ aborted = DescriptorCellSet
    /\ MolColumn[2] = None
    /\ Len(x.rows) = 2 /\ x.cols = <<>>

====
